---- MODULE Spec2Model ----
(***************************************************************************)
(* A model of string2::String2 (src/src/lib.rs): an owned, growable        *)
(* sequence of chars, `struct String2 { inner: Vec<char> }`.               *)
(*                                                                         *)
(* A String2 value is the record [inner |-> <<chars>>, cap |-> capacity]:  *)
(* the initialised part of the Vec's buffer and the buffer's size in       *)
(* chars.  A char is its scalar value (an integer), encoded text (&str,    *)
(* String) is a sequence of bytes.  Every method of String2 forwards to    *)
(* the Vec<char> method of the same name, so each method operator below    *)
(* computes what that Vec method does, including the capacity it leaves    *)
(* and the panic it raises.  The crate's only unsafe code is               *)
(* from_raw_parts, which no call modelled here uses: every String2 owns    *)
(* its buffer, so two sequences never share elements and each is a value   *)
(* of its own.                                                             *)
(***************************************************************************)
EXTENDS Integers, Sequences, FiniteSets, TLC

VARIABLES s, t, l, r, text, out, status, last

vars == <<s, t, l, r, text, out, status, last>>

(***************************************************************************)
(* Bounds of the model.                                                    *)
(***************************************************************************)
\* Longest sequence the model lets a String2 grow to.
MaxLen == 3
\* Longest encoded text (in bytes) given to from() in the round-trip model.
MaxTextLen == 4
\* Width of the machine word (usize) in bits.
WordBits == 8

(***************************************************************************)
(* Machine word arithmetic.                                                *)
(***************************************************************************)
RECURSIVE Pow2(_)
Pow2(n) == IF n = 0 THEN 1 ELSE 2 * Pow2(n - 1)

\* usize::MAX
UsizeMax == Pow2(WordBits) - 1

\* isize::MAX: no allocation may be larger, in bytes.
IsizeMax == Pow2(WordBits - 1) - 1

\* size_of::<char>()
CharSize == 4

\* The smallest non-empty buffer a growing Vec<char> allocates.
MinNonZeroCap == 4

Max(a, b) == IF a >= b THEN a ELSE b

Min(a, b) == IF a <= b THEN a ELSE b

\* Option<char>::None, and "no char argument" in the history.
NoChar == -1

(***************************************************************************)
(* UTF-8: &str -> chars (str::chars) and char -> bytes (char::encode_utf8) *)
(***************************************************************************)
\* The bytes the model's texts are made of: 'a', the lead bytes of a 2-, a
\* 3- (two of them) and a 4-byte sequence, and three continuation bytes.
Bytes == {97, 194, 226, 237, 240, 130, 159, 169}

IsCont(b) == b >= 128 /\ b <= 191

\* Number of bytes of the sequence a lead byte starts, 0 for a byte that
\* starts none.
Utf8CharWidth(b) ==
    IF b < 128 THEN 1
    ELSE IF b >= 194 /\ b <= 223 THEN 2
    ELSE IF b >= 224 /\ b <= 239 THEN 3
    ELSE IF b >= 240 /\ b <= 244 THEN 4
    ELSE 0

\* Well-formed UTF-8, the invariant of &str and String.
RECURSIVE IsValidUtf8(_)
IsValidUtf8(bs) ==
    IF bs = <<>> THEN TRUE
    ELSE LET x == bs[1]
             w == Utf8CharWidth(x)
         IN /\ w > 0
            /\ Len(bs) >= w
            /\ \A i \in 2..w : IsCont(bs[i])
            /\ (w = 3 /\ x = 224) => bs[2] >= 160
            /\ (w = 3 /\ x = 237) => bs[2] <= 159
            /\ (w = 4 /\ x = 240) => bs[2] >= 144
            /\ (w = 4 /\ x = 244) => bs[2] <= 143
            /\ IsValidUtf8(SubSeq(bs, w + 1, Len(bs)))

\* All byte sequences of length n over Bytes.
RECURSIVE ByteSeqs(_)
ByteSeqs(n) ==
    IF n = 0 THEN {<<>>}
    ELSE {Append(p, b) : p \in ByteSeqs(n - 1), b \in Bytes}

\* Every valid encoded text of at most n bytes.
ValidTexts(n) == {bs \in UNION {ByteSeqs(k) : k \in 0..n} : IsValidUtf8(bs)}

\* Number of bytes the first char of a valid text takes.
FirstWidth(bs) ==
    IF bs[1] < 128 THEN 1 ELSE IF bs[1] < 224 THEN 2 ELSE IF bs[1] < 240 THEN 3 ELSE 4

\* next_code_point(): the scalar value of the first char of a valid text.
NextCodePoint(bs) ==
    LET x    == bs[1]
        init == x % 32
    IN IF x < 128 THEN x
       ELSE IF x < 224 THEN init * 64 + (bs[2] % 64)
       ELSE LET y_z == (bs[2] % 64) * 64 + (bs[3] % 64)
            IN IF x < 240 THEN init * 4096 + y_z
               ELSE (init % 8) * 262144 + y_z * 64 + (bs[4] % 64)

\* str::chars().collect::<Vec<char>>(): the chars of a valid text in order.
RECURSIVE Chars(_)
Chars(bs) ==
    IF bs = <<>> THEN <<>>
    ELSE <<NextCodePoint(bs)>> \o Chars(SubSeq(bs, FirstWidth(bs) + 1, Len(bs)))

\* char::len_utf8()
LenUtf8(c) == IF c < 128 THEN 1 ELSE IF c < 2048 THEN 2 ELSE IF c < 65536 THEN 3 ELSE 4

\* char::encode_utf8(): the bytes of one char.
EncodeUtf8(c) ==
    IF LenUtf8(c) = 1 THEN <<c>>
    ELSE IF LenUtf8(c) = 2 THEN <<192 + ((c \div 64) % 32), 128 + (c % 64)>>
    ELSE IF LenUtf8(c) = 3
         THEN <<224 + ((c \div 4096) % 16), 128 + ((c \div 64) % 64), 128 + (c % 64)>>
    ELSE <<240 + ((c \div 262144) % 8), 128 + ((c \div 4096) % 64),
           128 + ((c \div 64) % 64), 128 + (c % 64)>>

\* Chars::size_hint().0 of a text with n bytes left: (n + 3) / 4.
CharsSizeHint(n) == (n + 3) \div 4

(***************************************************************************)
(* Vec<char>: capacity and growth                                          *)
(***************************************************************************)
len(v) == Len(v.inner)

capacity(v) == v.cap

\* A buffer of cap chars cannot be allocated: "capacity overflow".
CapacityOverflow(cap) == cap > UsizeMax \/ cap * CharSize > IsizeMax

\* Growth whose len + additional wraps around instead of being checked.
GrowAmortizedWrapping(v, additional) ==
    LET required == (len(v) + additional) % (UsizeMax + 1)
        cap      == Max(MinNonZeroCap, Max(v.cap * 2, required))
    IN IF CapacityOverflow(cap)
       THEN [cap |-> v.cap, panic |-> TRUE]
       ELSE [cap |-> cap, panic |-> FALSE]

\* RawVec::grow_amortized, the growth of reserve, push, insert, extend and
\* append: at least double, at least what is required, at least
\* MinNonZeroCap.  [cap, panic]: the new capacity, or a panic with
\* "capacity overflow" when len + additional overflows usize or the buffer
\* would be larger than isize::MAX bytes.
GrowAmortized(v, additional) ==
    LET required == len(v) + additional
        cap      == Max(MinNonZeroCap, Max(v.cap * 2, required))
    IN IF required > UsizeMax \/ CapacityOverflow(cap)
       THEN [cap |-> v.cap, panic |-> TRUE]
       ELSE [cap |-> cap, panic |-> FALSE]

\* Growth whose len + additional wraps around instead of being checked.
GrowExactWrapping(v, additional) ==
    LET required == (len(v) + additional) % (UsizeMax + 1)
    IN IF CapacityOverflow(required)
       THEN [cap |-> v.cap, panic |-> TRUE]
       ELSE [cap |-> required, panic |-> FALSE]

\* RawVec::grow_exact, the growth of reserve_exact: exactly what is required.
GrowExact(v, additional) ==
    LET required == len(v) + additional
    IN IF required > UsizeMax \/ CapacityOverflow(required)
       THEN [cap |-> v.cap, panic |-> TRUE]
       ELSE [cap |-> required, panic |-> FALSE]

\* RawVec::needs_to_grow
NeedsToGrow(v, additional) == additional > v.cap - len(v)

\* What a method hands back: the sequence after it, the value it returns
\* (a char, or NoChar) and whether it panicked.
Res(v, ret, panic) == [self |-> v, ret |-> ret, panic |-> panic]

(***************************************************************************)
(* String2: construction and sizing                                        *)
(***************************************************************************)
new == [inner |-> <<>>, cap |-> 0]

with_capacity(n) ==
    IF CapacityOverflow(n) THEN Res(new, NoChar, TRUE)
    ELSE Res([inner |-> <<>>, cap |-> n], NoChar, FALSE)

reserve(v, additional) ==
    IF NeedsToGrow(v, additional)
    THEN LET g == GrowAmortized(v, additional)
         IN Res([v EXCEPT !.cap = g.cap], NoChar, g.panic)
    ELSE Res(v, NoChar, FALSE)

reserve_exact(v, additional) ==
    IF NeedsToGrow(v, additional)
    THEN LET g == GrowExact(v, additional)
         IN Res([v EXCEPT !.cap = g.cap], NoChar, g.panic)
    ELSE Res(v, NoChar, FALSE)

shrink_to_fit(v) ==
    IF v.cap > len(v) THEN [v EXCEPT !.cap = len(v)] ELSE v

(***************************************************************************)
(* String2: element access and mutation                                    *)
(***************************************************************************)
\* A push that grows one element early.
push_eager(v, ch) ==
    LET g == IF len(v) + 1 >= v.cap THEN GrowAmortized(v, 1)
             ELSE [cap |-> v.cap, panic |-> FALSE]
    IN IF g.panic THEN Res(v, NoChar, TRUE)
       ELSE Res([inner |-> Append(v.inner, ch), cap |-> g.cap], NoChar, FALSE)

\* Vec::push: grows by one (amortized) when the buffer is full.
push(v, ch) ==
    IF len(v) = v.cap
    THEN LET g == GrowAmortized(v, 1)
         IN IF g.panic THEN Res(v, NoChar, TRUE)
            ELSE Res([inner |-> Append(v.inner, ch), cap |-> g.cap], NoChar, FALSE)
    ELSE Res([v EXCEPT !.inner = Append(v.inner, ch)], NoChar, FALSE)

\* Vec::extend(string.chars()): one char at a time; when the buffer is full
\* it reserves for the iterator's size_hint().0 + 1 more.
RECURSIVE Extend(_, _)
Extend(v, bs) ==
    IF bs = <<>> THEN Res(v, NoChar, FALSE)
    ELSE LET rest == SubSeq(bs, FirstWidth(bs) + 1, Len(bs))
             hint == Min(CharsSizeHint(Len(rest)) + 1, UsizeMax)
             g    == IF len(v) = v.cap THEN reserve(v, hint) ELSE Res(v, NoChar, FALSE)
         IN IF g.panic THEN Res(v, NoChar, TRUE)
            ELSE Extend([inner |-> Append(v.inner, NextCodePoint(bs)), cap |-> g.self.cap],
                        rest)

push_str(v, string) == Extend(v, string)

\* A pop that hands back the first element instead of the last.
pop_first(v) ==
    IF len(v) = 0 THEN Res(v, NoChar, FALSE)
    ELSE Res([v EXCEPT !.inner = SubSeq(v.inner, 1, len(v) - 1)], v.inner[1], FALSE)

\* Vec::pop: None (NoChar) for an empty sequence.
pop(v) ==
    IF len(v) = 0 THEN Res(v, NoChar, FALSE)
    ELSE Res([v EXCEPT !.inner = SubSeq(v.inner, 1, len(v) - 1)], v.inner[len(v)], FALSE)

\* A remove that takes the last element for an index past the end.
remove_saturating(v, idx) ==
    IF len(v) = 0 THEN Res(v, NoChar, FALSE)
    ELSE LET i == Min(idx, len(v) - 1)
         IN Res([v EXCEPT !.inner = SubSeq(v.inner, 1, i) \o SubSeq(v.inner, i + 2, len(v))],
                v.inner[i + 1], FALSE)

\* Vec::remove: panics when idx >= len, before it touches the buffer.
remove(v, idx) ==
    IF idx >= len(v) THEN Res(v, NoChar, TRUE)
    ELSE Res([v EXCEPT !.inner = SubSeq(v.inner, 1, idx) \o SubSeq(v.inner, idx + 2, len(v))],
             v.inner[idx + 1], FALSE)

\* An insert that puts the char at the end of the sequence.
insert_last(v, idx, ch) ==
    IF idx > len(v) THEN Res(v, NoChar, TRUE) ELSE push(v, ch)

\* Vec::insert: panics when idx > len; grows by one when the buffer is full.
insert(v, idx, ch) ==
    IF idx > len(v) THEN Res(v, NoChar, TRUE)
    ELSE LET g == IF len(v) = v.cap THEN GrowAmortized(v, 1)
                  ELSE [cap |-> v.cap, panic |-> FALSE]
         IN IF g.panic THEN Res(v, NoChar, TRUE)
            ELSE Res([inner |-> SubSeq(v.inner, 1, idx) \o <<ch>>
                                \o SubSeq(v.inner, idx + 1, len(v)),
                      cap |-> g.cap], NoChar, FALSE)

\* The body of insert_str is empty: both arguments are ignored.
insert_str(v, idx, string) == Res(v, NoChar, FALSE)

truncate(v, new_len) ==
    IF new_len < len(v) THEN [v EXCEPT !.inner = SubSeq(v.inner, 1, new_len)] ELSE v

clear(v) == [v EXCEPT !.inner = <<>>]

\* A retain that drops what the predicate accepts and keeps the rest.
retain_inverted(v, keep) ==
    [v EXCEPT !.inner = SelectSeq(v.inner, LAMBDA c : c \notin keep)]

\* Vec::retain with the predicate |c| keep.contains(c).
retain(v, keep) == [v EXCEPT !.inner = SelectSeq(v.inner, LAMBDA c : c \in keep)]

\* A get that hands back the last element for an index past the end.
get_clamped(v, idx) ==
    IF idx < len(v) THEN v.inner[idx + 1]
    ELSE IF len(v) > 0 THEN v.inner[len(v)] ELSE NoChar

\* Vec::get (<[char]>::get): Some(&element) when idx < len, else None.
get(v, idx) == IF idx < len(v) THEN v.inner[idx + 1] ELSE NoChar

\* Vec::get_mut: Some(&mut element) when idx < len, else None.
get_mut(v, idx) == IF idx >= len(v) THEN NoChar ELSE v.inner[idx + 1]

\* impl ops::Index<usize> for String2: &self.inner[idx] panics when
\* idx >= len.
index(v, idx) ==
    IF idx >= len(v) THEN Res(v, NoChar, TRUE) ELSE Res(v, v.inner[idx + 1], FALSE)

(***************************************************************************)
(* String2: structural operations                                          *)
(***************************************************************************)
\* <[char]>::to_vec: a copy in a new buffer of exactly that size.
to_vec(slice) == [inner |-> slice, cap |-> Len(slice)]

\* An append that copies the elements and leaves them in other.
append_copy(v, other) ==
    LET g == reserve(v, len(other))
    IN [self  |-> [inner |-> v.inner \o other.inner, cap |-> g.self.cap],
        other |-> other,
        panic |-> g.panic]

\* Vec::append: reserves other.len() (amortized), moves the elements and
\* sets other's length to 0.  [self, other, panic].
append(v, other) ==
    LET g == reserve(v, len(other))
    IN IF g.panic THEN [self |-> v, other |-> other, panic |-> TRUE]
       ELSE [self  |-> [inner |-> v.inner \o other.inner, cap |-> g.self.cap],
             other |-> [other EXCEPT !.inner = <<>>],
             panic |-> FALSE]

\* A split_off that loses the element at `at`.
split_off_skip(v, at) ==
    IF at > len(v) THEN [self |-> v, other |-> new, panic |-> TRUE]
    ELSE [self  |-> [v EXCEPT !.inner = SubSeq(v.inner, 1, at)],
          other |-> to_vec(SubSeq(v.inner, at + 2, len(v))),
          panic |-> FALSE]

\* Vec::split_off: panics when at > len; the new Vec is allocated with
\* capacity len - at, self keeps its capacity.  [self, other, panic].
split_off(v, at) ==
    IF at > len(v) THEN [self |-> v, other |-> new, panic |-> TRUE]
    ELSE [self  |-> [v EXCEPT !.inner = SubSeq(v.inner, 1, at)],
          other |-> [inner |-> SubSeq(v.inner, at + 1, len(v)), cap |-> len(v) - at],
          panic |-> FALSE]

\* A split_at that hands back the whole of self as its first half.
split_at_whole(v, mid) ==
    IF mid > len(v) THEN [a |-> new, b |-> new, panic |-> TRUE]
    ELSE [a |-> to_vec(v.inner),
          b |-> to_vec(SubSeq(v.inner, mid + 1, len(v))),
          panic |-> FALSE]

\* <[char]>::split_at panics when mid > len; each half is copied by to_vec.
\* [a, b, panic].
split_at(v, mid) ==
    IF mid > len(v) THEN [a |-> new, b |-> new, panic |-> TRUE]
    ELSE [a |-> to_vec(SubSeq(v.inner, 1, mid)),
          b |-> to_vec(SubSeq(v.inner, mid + 1, len(v))),
          panic |-> FALSE]

\* impl ops::Add for String2: self2.inner.append(&mut other.inner); self2
add(v, other) == append(v, other).self

\* impl ops::AddAssign for String2: self.inner.append(other.inner.as_mut())
add_assign(v, other) == append(v, other).self

(***************************************************************************)
(* String2: conversions                                                    *)
(***************************************************************************)
\* A decoder that takes every byte for a char.
from_bytes(string) == Res(to_vec(string), NoChar, FALSE)

\* From<&str> and From<String>: string.chars().collect().  Vec::from_iter
\* returns Vec::new() for no char; otherwise it allocates
\* max(MinNonZeroCap, size_hint().0 + 1) for the first char and extends
\* with the rest.
from(string) ==
    IF string = <<>> THEN Res(new, NoChar, FALSE)
    ELSE LET rest  == SubSeq(string, FirstWidth(string) + 1, Len(string))
             lower == CharsSizeHint(Len(rest))
             first == with_capacity(Max(MinNonZeroCap, Min(lower + 1, UsizeMax)))
         IN IF first.panic THEN first
            ELSE Extend([first.self EXCEPT !.inner = <<NextCodePoint(string)>>], rest)

\* Into<String>: every char's encode_utf8, concatenated.
RECURSIVE EncodeAll(_)
EncodeAll(chars) ==
    IF chars = <<>> THEN <<>>
    ELSE EncodeUtf8(chars[1]) \o EncodeAll(SubSeq(chars, 2, Len(chars)))

into(v) == EncodeAll(v.inner)

(***************************************************************************)
(* The program: a caller that owns the sequences s and t (and l, r, the    *)
(* results of split_at) and calls the methods of String2 on them.          *)
(*   status  "running", or "panicked" once a call has panicked: the        *)
(*           caller unwinds and makes no further call.                     *)
(*   last    the last call: its name, its arguments (n, ch, txt), the      *)
(*           char it returned, the sequences as they were before it        *)
(*           (pre), and, for a call that undoes the call before it,        *)
(*           that call's argument and the sequence before that call (law). *)
(*           k is 0 before a split_at, 1 right after it and one more       *)
(*           after every call that follows.                                *)
(***************************************************************************)
\* The inputs of the calls.
CharInputs == {97, 169}

TextInputs == {<<>>, <<97>>, <<194, 169>>, <<97, 194, 169>>}

\* The largest capacity a Vec<char> can have.
MaxCap == IsizeMax \div CharSize

AdditionalInputs == (0..MaxLen) \cup {MaxCap, UsizeMax}

IdxInputs == 0..(MaxLen + 1)

Snapshot == [s |-> s, t |-> t, l |-> l, r |-> r]

Hist(op, n, ch, txt, ret, law, k) ==
    [op |-> op, n |-> n, ch |-> ch, txt |-> txt, ret |-> ret, law |-> law, k |-> k,
     pre |-> Snapshot]

Outcome(panic) == IF panic THEN "panicked" ELSE "running"

Init ==
    /\ s = new
    /\ t = new
    /\ l = new
    /\ r = new
    /\ text = <<>>
    /\ out = <<>>
    /\ status = "running"
    /\ last = Hist("init", 0, NoChar, <<>>, NoChar, <<>>, 0)

\* A call of a method of s that touches nothing but s.
Call(op, n, ch, txt, res, law) ==
    /\ s' = res.self
    /\ status' = Outcome(res.panic)
    /\ last' = Hist(op, n, ch, txt, res.ret, law, 0)
    /\ UNCHANGED <<t, l, r, text, out>>

\* s = String2::new()
New ==
    /\ status = "running"
    /\ Call("new", 0, NoChar, <<>>, Res(new, NoChar, FALSE), <<>>)

\* s = String2::with_capacity(n)
WithCapacity(n) ==
    /\ status = "running"
    /\ Call("with_capacity", n, NoChar, <<>>, with_capacity(n), <<>>)

\* s = String2::from(string)
From(string) ==
    /\ status = "running"
    /\ Call("from", 0, NoChar, string, from(string), <<>>)

\* s.reserve(additional)
Reserve(additional) ==
    /\ status = "running"
    /\ Call("reserve", additional, NoChar, <<>>, reserve(s, additional), <<>>)

\* s.reserve_exact(additional)
ReserveExact(additional) ==
    /\ status = "running"
    /\ Call("reserve_exact", additional, NoChar, <<>>, reserve_exact(s, additional), <<>>)

\* s.shrink_to_fit()
ShrinkToFit ==
    /\ status = "running"
    /\ Call("shrink_to_fit", 0, NoChar, <<>>, Res(shrink_to_fit(s), NoChar, FALSE), <<>>)

\* s.push(ch); law holds s as it was before the first push of the run of
\* consecutive pushes this one belongs to.
Push(ch) ==
    /\ status = "running"
    /\ len(s) < MaxLen
    /\ Call("push", 0, ch, <<>>, push(s, ch),
            IF last.op = "push" THEN last.law ELSE <<[q |-> s, ch |-> NoChar, n |-> 0]>>)

\* s.push_str(string)
PushStr(string) ==
    /\ status = "running"
    /\ len(s) + Len(Chars(string)) <= MaxLen
    /\ Call("push_str", 0, NoChar, string, push_str(s, string), <<>>)

\* s.pop(); right after a push, law holds the pushed char and s before it.
Pop ==
    /\ status = "running"
    /\ Call("pop", 0, NoChar, <<>>, pop(s),
            IF last.op = "push" THEN <<[q |-> last.pre.s, ch |-> last.ch, n |-> 0]>> ELSE <<>>)

\* s.insert(idx, ch)
Insert(idx, ch) ==
    /\ status = "running"
    /\ len(s) < MaxLen \/ idx > len(s)
    /\ Call("insert", idx, ch, <<>>, insert(s, idx, ch), <<>>)

\* s.remove(idx); right after an insert at idx, law holds the inserted
\* char and s before the insert.
Remove(idx) ==
    /\ status = "running"
    /\ Call("remove", idx, NoChar, <<>>, remove(s, idx),
            IF last.op = "insert" /\ last.n = idx
            THEN <<[q |-> last.pre.s, ch |-> last.ch, n |-> idx]>> ELSE <<>>)

\* s.insert_str(idx, string)
InsertStr(idx, string) ==
    /\ status = "running"
    /\ Call("insert_str", idx, NoChar, string, insert_str(s, idx, string), <<>>)

\* s.truncate(new_len)
Truncate(new_len) ==
    /\ status = "running"
    /\ Call("truncate", new_len, NoChar, <<>>, Res(truncate(s, new_len), NoChar, FALSE), <<>>)

\* s.clear()
Clear ==
    /\ status = "running"
    /\ Call("clear", 0, NoChar, <<>>, Res(clear(s), NoChar, FALSE), <<>>)

\* s.retain(|c| keep.contains(c)); txt records the chars kept.
Retain(keep) ==
    /\ status = "running"
    /\ Call("retain", 0, NoChar, keep,
            Res(retain(s, {keep[i] : i \in DOMAIN keep}), NoChar, FALSE), <<>>)

\* s.append(&mut t); right after t = s.split_off(at), law holds at and s
\* before the split.
AppendT ==
    /\ status = "running"
    /\ len(s) + len(t) <= MaxLen
    /\ LET res == append(s, t)
       IN /\ s' = res.self
          /\ t' = res.other
          /\ status' = Outcome(res.panic)
    /\ last' = Hist("append", 0, NoChar, <<>>, NoChar,
                    IF last.op = "split_off"
                    THEN <<[q |-> last.pre.s, ch |-> NoChar, n |-> last.n]>> ELSE <<>>, 0)
    /\ UNCHANGED <<l, r, text, out>>

\* t = s.split_off(at); the sequence t held before is dropped.  A panic
\* leaves t as it was.
SplitOff(at) ==
    /\ status = "running"
    /\ LET res == split_off(s, at)
       IN /\ s' = res.self
          /\ t' = IF res.panic THEN t ELSE res.other
          /\ status' = Outcome(res.panic)
    /\ last' = Hist("split_off", at, NoChar, <<>>, NoChar, <<>>, 0)
    /\ UNCHANGED <<l, r, text, out>>

\* s = s + mem::take(&mut t): both operands are consumed, s is bound to the
\* sum and t is left as String2::default().
Add ==
    /\ status = "running"
    /\ len(s) + len(t) <= MaxLen
    /\ s' = add(s, t)
    /\ t' = new
    /\ last' = Hist("add", 0, NoChar, <<>>, NoChar, <<>>, 0)
    /\ UNCHANGED <<l, r, text, out, status>>

\* s += mem::take(&mut t)
AddAssign ==
    /\ status = "running"
    /\ len(s) + len(t) <= MaxLen
    /\ s' = add_assign(s, t)
    /\ t' = new
    /\ last' = Hist("add_assign", 0, NoChar, <<>>, NoChar, <<>>, 0)
    /\ UNCHANGED <<l, r, text, out, status>>

\* The chars a retain keeps, one sequence per predicate.
KeepInputs == {<<>>, <<97>>, <<169>>, <<97, 169>>}

\* The calls that build and restructure sequences, over two chars.
Next ==
    \/ New
    \/ \E string \in TextInputs : From(string)
    \/ ShrinkToFit
    \/ \E ch \in CharInputs : Push(ch)
    \/ \E string \in TextInputs : PushStr(string)
    \/ Pop
    \/ \E idx \in IdxInputs, ch \in CharInputs : Insert(idx, ch)
    \/ \E idx \in IdxInputs : Remove(idx)
    \/ \E idx \in IdxInputs : InsertStr(idx, <<194, 169, 97>>)
    \/ \E new_len \in IdxInputs : Truncate(new_len)
    \/ Clear
    \/ \E keep \in KeepInputs : Retain(keep)
    \/ AppendT
    \/ \E at \in IdxInputs : SplitOff(at)
    \/ Add
    \/ AddAssign

Spec == Init /\ [][Next]_vars

(***************************************************************************)
(* The same caller with the sizing calls, over one char: what the          *)
(* capacity does depends on lengths only.                                  *)
(***************************************************************************)
CapacityTexts == {<<>>, <<97>>, <<97, 97>>, <<97, 97, 97>>}

NextCapacity ==
    \/ New
    \/ \E n \in 0..MaxLen : WithCapacity(n)
    \/ \E string \in CapacityTexts : From(string)
    \/ \E additional \in AdditionalInputs : Reserve(additional)
    \/ \E additional \in AdditionalInputs : ReserveExact(additional)
    \/ ShrinkToFit
    \/ Push(97)
    \/ \E string \in CapacityTexts : PushStr(string)
    \/ Pop
    \/ \E idx \in IdxInputs : Insert(idx, 97)
    \/ \E idx \in IdxInputs : Remove(idx)
    \/ \E idx \in IdxInputs : InsertStr(idx, <<97>>)
    \/ \E new_len \in IdxInputs : Truncate(new_len)
    \/ Clear
    \/ \E keep \in {<<>>, <<97>>} : Retain(keep)
    \/ AppendT
    \/ \E at \in IdxInputs : SplitOff(at)

SpecCapacity == Init /\ [][NextCapacity]_vars

(***************************************************************************)
(* Text in, text out: the caller holds a valid encoded text, decodes it    *)
(* with String2::from and encodes the result with Into<String>.            *)
(***************************************************************************)
InitRoundTrip ==
    /\ text \in ValidTexts(MaxTextLen)
    /\ s = new
    /\ t = new
    /\ l = new
    /\ r = new
    /\ out = <<>>
    /\ status = "running"
    /\ last = Hist("init", 0, NoChar, <<>>, NoChar, <<>>, 0)

\* s = String2::from(text)
FromText ==
    /\ last.op = "init"
    /\ From(text)

\* out = (&s).into()
IntoString ==
    /\ status = "running"
    /\ last.op = "from"
    /\ out' = into(s)
    /\ last' = Hist("into", 0, NoChar, <<>>, NoChar, <<>>, 0)
    /\ UNCHANGED <<s, t, l, r, text, status>>

NextRoundTrip ==
    \/ FromText
    \/ IntoString

SpecRoundTrip == InitRoundTrip /\ [][NextRoundTrip]_vars

\* The number of characters of an encoded text: its bytes that are not
\* continuation bytes.
CharCount(bs) == Cardinality({i \in DOMAIN bs : ~IsCont(bs[i])})

MaxMut == 2

Mutations == {"push", "pop", "clear"}

Apply(m, v, ch) ==
    IF m = "push" THEN push(v, ch)
    ELSE IF m = "pop" THEN pop(v)
    ELSE Res(clear(v), NoChar, FALSE)

BuildFrom(string) ==
    /\ last.k = 0
    /\ From(string)

BuildPush(ch) ==
    /\ last.k = 0
    /\ Push(ch)

\* (l, r) = s.split_at(mid); a panic leaves l and r as they were.
SplitAt(mid) ==
    /\ status = "running"
    /\ last.k = 0
    /\ LET res == split_at(s, mid)
       IN /\ l' = IF res.panic THEN l ELSE res.a
          /\ r' = IF res.panic THEN r ELSE res.b
          /\ status' = Outcome(res.panic)
    /\ last' = Hist("split_at", mid, NoChar, <<>>, NoChar, <<>>, 1)
    /\ UNCHANGED <<s, t, text, out>>

CanMutate(v, m) ==
    /\ status = "running"
    /\ last.k >= 1
    /\ last.k <= MaxMut
    /\ m = "push" => len(v) < MaxLen

\* A call of push, pop or clear on s (&mut s), after the split.
MutateS(m, ch) ==
    /\ CanMutate(s, m)
    /\ s' = Apply(m, s, ch).self
    /\ status' = Outcome(Apply(m, s, ch).panic)
    /\ last' = Hist("s." \o m, 0, ch, <<>>, Apply(m, s, ch).ret, <<>>, last.k + 1)
    /\ UNCHANGED <<t, l, r, text, out>>

\* A call of push, pop or clear on l (&mut l).
MutateL(m, ch) ==
    /\ CanMutate(l, m)
    /\ l' = Apply(m, l, ch).self
    /\ status' = Outcome(Apply(m, l, ch).panic)
    /\ last' = Hist("l." \o m, 0, ch, <<>>, Apply(m, l, ch).ret, <<>>, last.k + 1)
    /\ UNCHANGED <<s, t, r, text, out>>

\* A call of push, pop or clear on r (&mut r).
MutateR(m, ch) ==
    /\ CanMutate(r, m)
    /\ r' = Apply(m, r, ch).self
    /\ status' = Outcome(Apply(m, r, ch).panic)
    /\ last' = Hist("r." \o m, 0, ch, <<>>, Apply(m, r, ch).ret, <<>>, last.k + 1)
    /\ UNCHANGED <<s, t, l, text, out>>

NextCopy ==
    \/ \E string \in TextInputs : BuildFrom(string)
    \/ \E ch \in CharInputs : BuildPush(ch)
    \/ \E mid \in IdxInputs : SplitAt(mid)
    \/ \E m \in Mutations, ch \in CharInputs : MutateS(m, ch)
    \/ \E m \in Mutations, ch \in CharInputs : MutateL(m, ch)
    \/ \E m \in Mutations, ch \in CharInputs : MutateR(m, ch)

SpecCopy == Init /\ [][NextCopy]_vars

(***************************************************************************)
(* Access by position: the caller builds s, reads it with get, get_mut     *)
(* and s[idx], inserts and removes at any position, and splits at          *)
(* positions past the end (Spec and SpecCopy split at the others).         *)
(***************************************************************************)
\* s.get(idx)
Get(idx) ==
    /\ status = "running"
    /\ Call("get", idx, NoChar, <<>>, Res(s, get(s, idx), FALSE), <<>>)

\* if let Some(c) = s.get_mut(idx) { *c = ch }: the caller stores ch
\* through the reference it is handed, if it is handed one.
GetMut(idx, ch) ==
    /\ status = "running"
    /\ Call("get_mut", idx, ch, <<>>,
            Res(IF get_mut(s, idx) = NoChar THEN s ELSE [s EXCEPT !.inner[idx + 1] = ch],
                get_mut(s, idx), FALSE), <<>>)

\* s[idx]
Index(idx) ==
    /\ status = "running"
    /\ Call("index", idx, NoChar, <<>>, index(s, idx), <<>>)

\* t = s.split_off(at) with a position past the end of s.
SplitOffPastEnd(at) ==
    /\ at > len(s)
    /\ SplitOff(at)

\* (l, r) = s.split_at(mid) with a position past the end of s.
SplitAtPastEnd(mid) ==
    /\ mid > len(s)
    /\ SplitAt(mid)

NextAccess ==
    \/ \E string \in TextInputs : From(string)
    \/ \E ch \in CharInputs : Push(ch)
    \/ Pop
    \/ \E idx \in IdxInputs : Get(idx)
    \/ \E idx \in IdxInputs, ch \in CharInputs : GetMut(idx, ch)
    \/ \E idx \in IdxInputs : Index(idx)
    \/ \E idx \in IdxInputs, ch \in CharInputs : Insert(idx, ch)
    \/ \E idx \in IdxInputs : Remove(idx)
    \/ \E at \in IdxInputs : SplitOffPastEnd(at)
    \/ \E mid \in IdxInputs : SplitAtPastEnd(mid)

SpecAccess == Init /\ [][NextAccess]_vars

(***************************************************************************)
(* The claims.                                                             *)
(***************************************************************************)
\* C2: in every state the calls can reach, every live sequence has
\* len() <= capacity(): s, and t, the sequence split_off returned or
\* append emptied.
C2_LenLeCapacity ==
    /\ len(s) <= capacity(s)
    /\ len(t) <= capacity(t)

\* An append has filled s to its capacity and left t empty with its buffer.
C2_Witness ==
    /\ last.op = "append"
    /\ len(s) = MaxLen
    /\ capacity(s) = len(s)
    /\ len(t) = 0
    /\ capacity(t) >= 2

\* C3 (as the claim states it): insert_str(i, string) with i <= len()
\* leaves s with the old elements [0, i), then the chars of string, then
\* the old elements [i, len).
C3_InsertStrInserts ==
    (last.op = "insert_str" /\ last.n <= len(last.pre.s)) =>
        s.inner = SubSeq(last.pre.s.inner, 1, last.n) \o Chars(last.txt)
                  \o SubSeq(last.pre.s.inner, last.n + 1, len(last.pre.s))

\* len() + additional does not fit a machine word.
Overflows(v, additional) == len(v) + additional > UsizeMax

\* C4 (as the claim states it): a reserve or reserve_exact whose
\* len() + additional overflows ends in an outcome the caller can go on
\* from, not in a panic.
C4_OverflowIsRecoverable ==
    (last.op \in {"reserve", "reserve_exact"} /\ Overflows(last.pre.s, last.n)) =>
        status = "running"

\* C4 (amended): a reserve or reserve_exact whose len() + additional
\* overflows panics, and the sequence keeps the elements and the capacity
\* it had: the capacity is never silently smaller than asked for.
C4_OverflowPanics ==
    (last.op \in {"reserve", "reserve_exact"} /\ Overflows(last.pre.s, last.n)) =>
        /\ status = "panicked"
        /\ s = last.pre.s

\* A reserve_exact of usize::MAX more on a sequence of two chars panicked.
C4_Witness ==
    /\ last.op = "reserve_exact"
    /\ last.n = UsizeMax
    /\ len(last.pre.s) = 2
    /\ status = "panicked"

\* C5: appending does not reallocate while there is spare capacity.  After
\* k consecutive pushes onto q with len(q) + k <= capacity(q), and after a
\* push_str of k chars onto such a q, the capacity is that of q; a reserve
\* of no more than the spare capacity leaves the capacity as it is.
C5_NoReallocation ==
    /\ (last.op = "push" /\ len(s) <= capacity(last.law[1].q)) =>
           capacity(s) = capacity(last.law[1].q)
    /\ (last.op = "push_str" /\ len(s) <= capacity(last.pre.s)) =>
           capacity(s) = capacity(last.pre.s)
    /\ (last.op = "reserve" /\ capacity(last.pre.s) - len(last.pre.s) >= last.n) =>
           capacity(s) = capacity(last.pre.s)

\* MaxLen pushes after with_capacity(MaxLen) have filled the buffer.
C5_Witness ==
    /\ last.op = "push"
    /\ last.law[1].q = with_capacity(MaxLen).self
    /\ len(s) = MaxLen
    /\ capacity(s) = MaxLen

\* impl PartialEq for String2
eq(a, b) == a.inner = b.inner

\* C6: t = s.split_off(at) leaves the old elements [0, at) in s and
\* [at, len) in t, and s.append(&mut t) right after it makes s equal to
\* what it was before the split.
C6_SplitOffAppend ==
    /\ (last.op = "split_off" /\ last.n <= len(last.pre.s)) =>
           /\ status = "running"
           /\ s.inner = SubSeq(last.pre.s.inner, 1, last.n)
           /\ t.inner = SubSeq(last.pre.s.inner, last.n + 1, len(last.pre.s))
    /\ (last.op = "append" /\ last.law # <<>>) =>
           /\ status = "running"
           /\ eq(s, last.law[1].q)
           /\ len(s) = len(last.law[1].q)

\* A sequence of MaxLen chars, not all the same, split at 1 and appended.
C6_Witness ==
    /\ last.op = "append"
    /\ last.law # <<>>
    /\ last.law[1].n = 1
    /\ len(s) = MaxLen
    /\ s.inner[2] # s.inner[3]

\* other's elements pushed onto v one at a time.
RECURSIVE PushAll(_, _)
PushAll(v, chars) ==
    IF chars = <<>> THEN v
    ELSE PushAll(push(v, chars[1]).self, SubSeq(chars, 2, Len(chars)))

\* C7: s.append(&mut t) leaves s with its old elements followed by t's old
\* elements, t empty and the sum of the lengths as it was; s is what
\* pushing t's elements one at a time gives, and what s + t and s += t
\* give.
C7_Append ==
    /\ last.op = "append" =>
           /\ s.inner = last.pre.s.inner \o last.pre.t.inner
           /\ len(t) = 0
           /\ len(s) + len(t) = len(last.pre.s) + len(last.pre.t)
           /\ eq(s, PushAll(last.pre.s, last.pre.t.inner))
           /\ eq(s, add(last.pre.s, last.pre.t))
           /\ eq(s, add_assign(last.pre.s, last.pre.t))
    /\ last.op \in {"add", "add_assign"} =>
           s.inner = last.pre.s.inner \o last.pre.t.inner

\* An append of two different chars onto a sequence that was not empty.
C7_Witness ==
    /\ last.op = "append"
    /\ len(last.pre.s) >= 1
    /\ len(last.pre.t) = 2
    /\ last.pre.t.inner[1] # last.pre.t.inner[2]

\* C8: split_at(mid) with mid <= len() hands back copies of the elements
\* [0, mid) and [mid, len) and leaves s as it was; a later call on one of
\* s, l and r changes neither of the other two.
C8_SplitAtCopies ==
    /\ (last.op = "split_at" /\ last.n <= len(last.pre.s)) =>
           /\ status = "running"
           /\ l.inner = SubSeq(last.pre.s.inner, 1, last.n)
           /\ r.inner = SubSeq(last.pre.s.inner, last.n + 1, len(last.pre.s))
           /\ s = last.pre.s
    /\ last.op \in {"s." \o m : m \in Mutations} => l = last.pre.l /\ r = last.pre.r
    /\ last.op \in {"l." \o m : m \in Mutations} => s = last.pre.s /\ r = last.pre.r
    /\ last.op \in {"r." \o m : m \in Mutations} => s = last.pre.s /\ l = last.pre.l

\* A sequence of MaxLen chars was split in the middle and a char pushed
\* onto the first half.
C8_Witness ==
    /\ last.op = "l.push"
    /\ len(s) = MaxLen
    /\ len(l) = 2
    /\ len(r) = MaxLen - 1
    /\ l.inner[1] = s.inner[1]
    /\ l.inner[2] # s.inner[2]

\* C9: s.insert(i, c) with i <= len() puts c at i, moves the old elements
\* [i, len) one place right and makes s one longer; s.remove(i) right
\* after it returns c and leaves s with the elements it had before.
C9_InsertRemove ==
    /\ (last.op = "insert" /\ last.n <= len(last.pre.s)) =>
           /\ status = "running"
           /\ len(s) = len(last.pre.s) + 1
           /\ s.inner[last.n + 1] = last.ch
           /\ \A j \in 1..last.n : s.inner[j] = last.pre.s.inner[j]
           /\ \A j \in (last.n + 1)..len(last.pre.s) : s.inner[j + 1] = last.pre.s.inner[j]
    /\ (last.op = "remove" /\ last.law # <<>>) =>
           /\ status = "running"
           /\ last.ret = last.law[1].ch
           /\ s.inner = last.law[1].q.inner
           /\ len(s) = len(last.law[1].q)

\* A char inserted between two others and removed again.
C9_Witness ==
    /\ last.op = "remove"
    /\ last.law # <<>>
    /\ last.law[1].n = 1
    /\ len(s) = 2
    /\ last.ret # s.inner[1]
    /\ last.ret # s.inner[2]

\* C10: s.push(c) and s.pop() right after it: the pop returns c and s has
\* the length and the elements it had before the push; its capacity is
\* not smaller.
C10_PushPop ==
    (last.op = "pop" /\ last.law # <<>>) =>
        /\ last.ret = last.law[1].ch
        /\ len(s) = len(last.law[1].q)
        /\ s.inner = last.law[1].q.inner
        /\ capacity(s) >= capacity(last.law[1].q)

\* A push onto a full buffer of two chars, which grew, and the pop.
C10_Witness ==
    /\ last.op = "pop"
    /\ last.law # <<>>
    /\ len(s) = 2
    /\ capacity(last.law[1].q) = 2
    /\ capacity(s) > 2

\* The positions of chars whose element the predicate accepts.
Kept(chars, keep) == {i \in DOMAIN chars : chars[i] \in keep}

\* C11: s.retain(p) keeps the elements p accepts and no others, in the
\* order they had: the j-th element of s is the old element at the j-th
\* accepted position.  With a predicate that accepts every element s is
\* unchanged, with one that accepts none s has length 0.
C11_Retain ==
    last.op = "retain" =>
        LET old  == last.pre.s.inner
            keep == {last.txt[i] : i \in DOMAIN last.txt}
            pos  == Kept(old, keep)
        IN /\ status = "running"
           /\ len(s) = Cardinality(pos)
           /\ \A i \in pos : s.inner[Cardinality({j \in pos : j <= i})] = old[i]
           /\ (\A i \in DOMAIN old : old[i] \in keep) => s.inner = old
           /\ keep = {} => len(s) = 0

\* A retain that dropped the middle one of MaxLen chars.
C11_Witness ==
    /\ last.op = "retain"
    /\ len(last.pre.s) = MaxLen
    /\ len(s) = MaxLen - 1
    /\ last.pre.s.inner[1] = last.pre.s.inner[3]
    /\ last.pre.s.inner[2] # last.pre.s.inner[1]

\* C12: get(i) and get_mut(i) never panic; they return the element at i
\* when i < len() and None when i >= len(), and then s is unchanged (get
\* never changes it).  pop() on an empty s returns None, does not panic
\* and leaves s empty.
C12_CheckedAccess ==
    /\ last.op \in {"get", "get_mut"} =>
           /\ status = "running"
           /\ last.n < len(last.pre.s) => last.ret = last.pre.s.inner[last.n + 1]
           /\ last.n >= len(last.pre.s) => last.ret = NoChar /\ s = last.pre.s
           /\ last.op = "get" => s = last.pre.s
    /\ (last.op = "pop" /\ len(last.pre.s) = 0) =>
           /\ status = "running"
           /\ last.ret = NoChar
           /\ len(s) = 0
           /\ s = last.pre.s

\* A get at the position right after the last of two chars found nothing.
C12_Witness ==
    /\ last.op = "get"
    /\ len(s) = 2
    /\ last.n = 2
    /\ last.ret = NoChar
    /\ status = "running"

\* The call op with position n is outside what the sequence q allows.
InvalidPosition(op, n, q) ==
    \/ op \in {"insert", "split_off", "split_at"} /\ n > len(q)
    \/ op \in {"remove", "index"} /\ n >= len(q)

\* C13: insert(i, c) with i > len(), remove(i) with i >= len(),
\* split_off(at) with at > len(), split_at(mid) with mid > len() and s[i]
\* with i >= len() panic, and at the panic every sequence is what it was
\* before the call: same elements, same length.
C13_FaultBeforeMutation ==
    InvalidPosition(last.op, last.n, last.pre.s) =>
        /\ status = "panicked"
        /\ s = last.pre.s
        /\ t = last.pre.t
        /\ l = last.pre.l
        /\ r = last.pre.r

\* A remove at the position right after the last of two chars panicked.
C13_Witness ==
    /\ last.op = "remove"
    /\ len(s) = 2
    /\ last.n = 2
    /\ status = "panicked"

====
